---- MODULE Spec2Model ----
(***************************************************************************)
(* A model of the ndc-postgres connector core:                             *)
(*   - configuration/version1.rs : RawConfiguration, validation and the    *)
(*     introspection step `configure`;                                     *)
(*   - schema.rs                 : derivation of the schema response;      *)
(*   - translation/query/operators.rs : translation of comparison          *)
(*     operators.                                                          *)
(* Maps (BTreeMap) are functions over a set of string keys, vectors are    *)
(* sequences, Option<T> is a sequence of length at most one, Result and    *)
(* enums are records with a "tag" field.                                   *)
(***************************************************************************)
EXTENDS Integers, Sequences, FiniteSets, TLC

VARIABLES
    raw,            \* the RawConfiguration given to the running operation
    vresult,        \* result of validate_raw_configuration
    cpc,            \* configure: position in the async function
    url,            \* configure: the selected connection uri
    response,       \* configure: what the database answered to the query
    row,            \* configure: the row fetch_one returned
    tables,         \* configure: local `tables` of the decode block
    cresult,        \* configure: what the call returned
    env,            \* translation: the Env holding the operator catalog
    tcall,          \* translation: the last translate_comparison call
    schema,         \* result of get_schema
    tasks,          \* concurrent request handlers: each one's call and progress
    previous,       \* repeated discovery: what the earlier configure returned
    doc,            \* the configuration file: a JSON document
    parsed          \* result of deserializing the configuration file

vars == <<raw, vresult, cpc, url, response, row, tables, cresult, env, tcall, schema,
          tasks, previous, doc, parsed>>

(***************************************************************************)
(* Generic helpers                                                         *)
(***************************************************************************)
None == <<>>
Some(x) == <<x>>

EmptyMap == [k \in {} |-> {}]

\* All maps from a subset of keys to values.
MapsOver(keys, values) == UNION {[d -> values] : d \in SUBSET keys}

\* All sequences over s of length at most n.
SeqsUpTo(s, n) == UNION {[1..k -> s] : k \in 0..n}

Range(f) == {f[k] : k \in DOMAIN f}

Nothing == [tag |-> "None"]
Ok(v) == [tag |-> "Ok", value |-> v]
Err(e) == [tag |-> "Err", error |-> e]
Panic(m) == [tag |-> "Panic", message |-> m]
Cancelled == [tag |-> "Cancelled"]

(***************************************************************************)
(* configuration/version1.rs : data                                        *)
(***************************************************************************)
CURRENT_VERSION == 1

Single(u) == [tag |-> "Single", items |-> <<u>>]
List(l) == [tag |-> "List", items |-> l]

SingleOrList_is_empty(urls) ==
    CASE urls.tag = "Single" -> FALSE
      [] urls.tag = "List" -> Len(urls.items) = 0

SingleOrList_first(urls) ==
    CASE urls.tag = "Single" -> Some(urls.items[1])
      [] urls.tag = "List" -> IF Len(urls.items) = 0 THEN None ELSE Some(urls.items[1])

default_excluded_schemas ==
    <<"information_schema", "pg_catalog", "tiger", "crdb_internal", "columnar",
      "columnar_internal">>

PoolSettings_default ==
    [max_connections |-> 50, pool_timeout |-> 30, idle_timeout |-> Some(180),
     connection_lifetime |-> Some(600)]

PoolSettings_is_default(p) == p = PoolSettings_default

Metadata_default ==
    [tables |-> EmptyMap, native_queries |-> EmptyMap, aggregate_functions |-> EmptyMap]

single_connection_uri(connection_uri) == Single(connection_uri)

RawConfiguration_empty ==
    [version |-> CURRENT_VERSION,
     connection_uris |-> List(<<>>),
     pool_settings |-> PoolSettings_default,
     metadata |-> Metadata_default,
     excluded_schemas |-> default_excluded_schemas]

Key(k) == [tag |-> "Key", key |-> k]
InvalidRange(p, m) == [path |-> p, message |-> m]

(***************************************************************************)
(* validate_raw_configuration                                              *)
(***************************************************************************)
validate_raw_configuration(config) ==
    IF config.version # 1
    THEN Err(<<InvalidRange(<<Key("version")>>,
                            "invalid configuration version, expected 1, got "
                                \o ToString(config.version))>>)
    ELSE IF SingleOrList_is_empty(config.connection_uris)
    THEN Err(<<InvalidRange(<<Key("connection_uris")>>,
                            "At least one database url must be specified")>>)
    ELSE Ok([config |-> config])

(***************************************************************************)
(* query_engine_metadata::metadata as read by schema.rs and version1.rs    *)
(***************************************************************************)
ColumnInfo(n, t, nl) == [name |-> n, type |-> t, nullable |-> nl]

TableInfo(cols, ucs, frs) ==
    [columns |-> cols, uniqueness_constraints |-> ucs, foreign_relations |-> frs]

ForeignRelation(ft, cm) == [foreign_table |-> ft, column_mapping |-> cm]

NativeQueryInfo(cols, args) == [columns |-> cols, arguments |-> args]

AggregateFunction(rt) == [return_type |-> rt]

\* Lexicographic order of the identifiers the model uses (BTreeMap/BTreeSet order).
NameOrder == <<"a", "b", "c", "d", "fk", "pk", "x", "y", "z">>

\* The elements of a BTreeSet in iteration order.
InOrder(S) == SelectSeq(NameOrder, LAMBDA n : n \in S)

(***************************************************************************)
(* Bounded inputs                                                          *)
(***************************************************************************)
MaxVersion == 2
MaxUris == 2

Uris == {"postgresql://h1", "postgresql://h2"}

ConnectionUrisSet ==
    {Single(u) : u \in Uris} \cup {List(l) : l \in SeqsUpTo(Uris, MaxUris)}

PoolSettingsSet ==
    {PoolSettings_default,
     [max_connections |-> 10, pool_timeout |-> 30, idle_timeout |-> None,
      connection_lifetime |-> Some(600)]}

ExcludedSchemasSet == {default_excluded_schemas, <<"private">>}

\* A hand-written metadata with one entry of each kind.
OldTables ==
    [n \in {"a"} |->
        TableInfo([k \in {"x"} |-> ColumnInfo("x", "int4", "NonNullable")],
                  EmptyMap, EmptyMap)]

UserNativeQueries ==
    [n \in {"c"} |->
        NativeQueryInfo([k \in {"y"} |-> ColumnInfo("y", "text", "Nullable")],
                        [k \in {"x"} |-> ColumnInfo("x", "int4", "NonNullable")])]

OldAggregateFunctions ==
    [t \in {"int4"} |-> [f \in {"max"} |-> AggregateFunction("int4")]]

PriorMetadataSet ==
    {Metadata_default,
     [tables |-> OldTables, native_queries |-> UserNativeQueries,
      aggregate_functions |-> OldAggregateFunctions]}

RawConfigurations ==
    [version : 0..MaxVersion,
     connection_uris : ConnectionUrisSet,
     pool_settings : PoolSettingsSet,
     metadata : PriorMetadataSet,
     excluded_schemas : ExcludedSchemasSet]

(***************************************************************************)
(* Idle values of the variables an operation does not use                  *)
(***************************************************************************)
IdleConfigure ==
    /\ cpc = "idle" /\ url = None /\ response = Nothing /\ row = None
    /\ tables = None /\ cresult = Nothing
IdleValidate == vresult = Nothing
IdleTranslate == env = EmptyMap /\ tcall = Nothing
IdleSchema == schema = Nothing
IdleTasks == tasks = <<>>
IdleRepeat == previous = Nothing
IdleFile == doc = Nothing /\ parsed = Nothing
IdleOthers == IdleTasks /\ IdleRepeat /\ IdleFile

(***************************************************************************)
(* Validation of a configuration read from a deployment file               *)
(***************************************************************************)
InitValidate ==
    /\ raw \in RawConfigurations
    /\ IdleValidate /\ IdleConfigure /\ IdleTranslate /\ IdleSchema
    /\ IdleOthers

Validate ==
    /\ vresult = Nothing
    /\ vresult' = validate_raw_configuration(raw)
    /\ UNCHANGED <<raw, cpc, url, response, row, tables, cresult, env, tcall, schema,
                 tasks, previous, doc, parsed>>

NextValidate == Validate

SpecValidate == InitValidate /\ [][NextValidate]_vars

(***************************************************************************)
(* The database as `configure` sees it: the answer to the discovery query  *)
(***************************************************************************)
\* A JSON value: a number, or an object whose members each are the JSON
\* encoding of a TableInfo or of one scalar type's aggregate functions.
JNumber == [kind |-> "number", members |-> EmptyMap]
JObject(m) == [kind |-> "object", members |-> m]
JMember(shape, v) == [shape |-> shape, value |-> v]

TablesInfo_to_json(t) == JObject([n \in DOMAIN t |-> JMember("TableInfo", t[n])])
AggregateFunctions_to_json(a) ==
    JObject([n \in DOMAIN a |-> JMember("AggregateFunctions", a[n])])

\* serde_json::from_value::<T>: every member must decode as T's map value.
from_value(shape, j) ==
    IF j.kind = "object" /\ \A n \in DOMAIN j.members : j.members[n].shape = shape
    THEN Ok([n \in DOMAIN j.members |-> j.members[n].value])
    ELSE Err("serde_json")

from_value_TablesInfo(j) == from_value("TableInfo", j)
from_value_AggregateFunctions(j) == from_value("AggregateFunctions", j)

\* A result column: its Postgres type and, for a JSON column, its value.
JsonCell(j) == [pgtype |-> "jsonb", json |-> j]
TextCell == [pgtype |-> "text", json |-> JNumber]

\* sqlx Row::get::<serde_json::Value>(index): panics when the column does
\* not exist or does not decode as the requested type.
Row_get(r, index) ==
    IF index + 1 > Len(r) THEN Panic("ColumnIndexOutOfBounds")
    ELSE IF r[index + 1].pgtype # "jsonb" THEN Panic("ColumnDecode")
    ELSE Ok(r[index + 1].json)

QueryError == [tag |-> "Error", rows |-> <<>>]
QueryRows(rs) == [tag |-> "Rows", rows |-> rs]

\* sqlx Executor::fetch_one: the first row, RowNotFound when there is none.
fetch_one(resp) ==
    CASE resp.tag = "Error" -> Err("Database")
      [] resp.tag = "Rows" ->
            IF Len(resp.rows) = 0 THEN Err("RowNotFound") ELSE Ok(resp.rows[1])

NewTables ==
    [n \in {"b"} |->
        TableInfo([k \in {"y"} |-> ColumnInfo("y", "text", "Nullable")],
                  [c \in {"pk"} |-> {"y"}], EmptyMap)]

NewAggregateFunctions ==
    [t \in {"text"} |-> [f \in {"max"} |-> AggregateFunction("text")]]

MaxRows == 2
MaxCols == 2

Cells ==
    {TextCell, JsonCell(JNumber), JsonCell(JObject(EmptyMap)),
     JsonCell(TablesInfo_to_json(NewTables)),
     JsonCell(AggregateFunctions_to_json(NewAggregateFunctions))}

Rows == SeqsUpTo(Cells, MaxCols)

\* Rows after the first, which fetch_one never reads.
FurtherRows ==
    {<<JsonCell(TablesInfo_to_json(OldTables)),
       JsonCell(AggregateFunctions_to_json(OldAggregateFunctions))>>}

QueryResponses ==
    {QueryError, QueryRows(<<>>)}
        \cup {QueryRows(<<r>> \o more) : r \in Rows,
                                          more \in SeqsUpTo(FurtherRows, MaxRows - 1)}

(***************************************************************************)
(* select_first_connection_uri and configure                               *)
(***************************************************************************)
select_first_connection_uri(urls) ==
    LET first == SingleOrList_first(urls)
    IN  IF first = None THEN Panic("No connection URIs were provided.")
        ELSE Ok(first[1])

UpdateConfigurationError_Other(e) == Err([tag |-> "Other", cause |-> e])

\* Variant of ConfigureOutput: discovery merged into the tables of args.
ConfigureOutputMerging(args, tbls, aggregate_functions) ==
    [version |-> 1,
     connection_uris |-> args.connection_uris,
     pool_settings |-> args.pool_settings,
     metadata |-> [tables |-> [n \in DOMAIN tbls \cup DOMAIN args.metadata.tables |->
                                  IF n \in DOMAIN tbls THEN tbls[n]
                                  ELSE args.metadata.tables[n]],
                   native_queries |-> args.metadata.native_queries,
                   aggregate_functions |-> aggregate_functions],
     excluded_schemas |-> args.excluded_schemas]

\* The value `configure` builds on success.
ConfigureOutput(args, tbls, aggregate_functions) ==
    [version |-> 1,
     connection_uris |-> args.connection_uris,
     pool_settings |-> args.pool_settings,
     metadata |-> [tables |-> tbls,
                   native_queries |-> args.metadata.native_queries,
                   aggregate_functions |-> aggregate_functions],
     excluded_schemas |-> args.excluded_schemas]

InitConfigure ==
    /\ raw \in RawConfigurations
    /\ cpc = "start" /\ url = None /\ response = Nothing /\ row = None
    /\ tables = None /\ cresult = Nothing
    /\ IdleValidate /\ IdleTranslate /\ IdleSchema
    /\ IdleOthers

\* let url = select_first_connection_uri(&args.connection_uris);
SelectUri ==
    /\ cpc = "start"
    /\ LET r == select_first_connection_uri(raw.connection_uris)
       IN  IF r.tag = "Panic"
           THEN /\ cresult' = r /\ cpc' = "done" /\ url' = url
           ELSE /\ url' = Some(r.value) /\ cpc' = "connect" /\ cresult' = cresult
    /\ UNCHANGED <<raw, vresult, response, row, tables, env, tcall, schema,
                 tasks, previous, doc, parsed>>

\* PgConnection::connect(url).await.map_err(..)?
Connect ==
    /\ cpc = "connect"
    /\ \E reachable \in BOOLEAN :
          IF reachable
          THEN /\ cpc' = "fetch" /\ cresult' = cresult
          ELSE /\ cpc' = "done" /\ cresult' = UpdateConfigurationError_Other("Io")
    /\ UNCHANGED <<raw, vresult, url, response, row, tables, env, tcall, schema,
                 tasks, previous, doc, parsed>>

\* connection.fetch_one(query).await.map_err(..)?
FetchOne ==
    /\ cpc = "fetch"
    /\ \E resp \in QueryResponses :
          /\ response' = resp
          /\ LET r == fetch_one(resp)
             IN  IF r.tag = "Err"
                 THEN /\ cpc' = "done" /\ row' = row
                      /\ cresult' = UpdateConfigurationError_Other(r.error)
                 ELSE /\ cpc' = "decode_tables" /\ row' = Some(r.value)
                      /\ cresult' = cresult
    /\ UNCHANGED <<raw, vresult, url, tables, env, tcall, schema,
                 tasks, previous, doc, parsed>>

\* let tables = serde_json::from_value(row.get(0)).map_err(..)?;
DecodeTables ==
    /\ cpc = "decode_tables"
    /\ LET cell == Row_get(row[1], 0)
           r == IF cell.tag = "Panic" THEN cell ELSE from_value_TablesInfo(cell.value)
       IN  CASE r.tag = "Panic" -> /\ cpc' = "done" /\ cresult' = r /\ tables' = tables
             [] r.tag = "Err" ->
                    /\ cpc' = "done" /\ tables' = tables
                    /\ cresult' = UpdateConfigurationError_Other(r.error)
             [] r.tag = "Ok" ->
                    /\ cpc' = "decode_aggregates" /\ tables' = Some(r.value)
                    /\ cresult' = cresult
    /\ UNCHANGED <<raw, vresult, url, response, row, env, tcall, schema,
                 tasks, previous, doc, parsed>>

\* let aggregate_functions = serde_json::from_value(row.get(1)).map_err(..)?;
\* Ok(RawConfiguration { .. })
DecodeAggregates ==
    /\ cpc = "decode_aggregates"
    /\ LET cell == Row_get(row[1], 1)
           r == IF cell.tag = "Panic" THEN cell
                ELSE from_value_AggregateFunctions(cell.value)
       IN  CASE r.tag = "Panic" -> cresult' = r
             [] r.tag = "Err" -> cresult' = UpdateConfigurationError_Other(r.error)
             [] r.tag = "Ok" -> cresult' = Ok(ConfigureOutput(raw, tables[1], r.value))
    /\ cpc' = "done"
    /\ UNCHANGED <<raw, vresult, url, response, row, tables, env, tcall, schema,
                 tasks, previous, doc, parsed>>

\* The caller drops the future while it is suspended (before its first poll,
\* in connect().await or in fetch_one().await).
Cancel ==
    /\ cpc \in {"start", "connect", "fetch"}
    /\ cpc' = "done"
    /\ cresult' = Cancelled
    /\ UNCHANGED <<raw, vresult, url, response, row, tables, env, tcall, schema,
                 tasks, previous, doc, parsed>>

NextConfigure ==
    \/ SelectUri
    \/ Connect
    \/ FetchOne
    \/ DecodeTables
    \/ DecodeAggregates
    \/ Cancel

SpecConfigure == InitConfigure /\ [][NextConfigure]_vars

(***************************************************************************)
(* translation/query/operators.rs : translate_comparison                   *)
(***************************************************************************)
Equal == [tag |-> "Equal", name |-> ""]
Other(n) == [tag |-> "Other", name |-> n]

ComparisonOperator(n, infix, t) ==
    [operator_name |-> n, is_infix |-> infix, argument_type |-> t]

\* sql::ast::equals(): the SQL equality operator.
sql_ast_equals == [function_name |-> "=", is_infix |-> TRUE]

\* Env::lookup_comparison: the entry of `name` in the catalog of `scalar_type`.
lookup_comparison(e, scalar_type, name) ==
    IF scalar_type \in DOMAIN e /\ name \in DOMAIN e[scalar_type]
    THEN Ok(e[scalar_type][name])
    ELSE Err([tag |-> "OperatorNotFound", operator_name |-> name,
              type_name |-> scalar_type])

\* Variant of translate_comparison: an operator the catalog lacks is
\* translated as equality on the left type.
translate_comparison_defaulting(e, left_type, operator) ==
    CASE operator.tag = "Equal" -> Ok(<<sql_ast_equals, left_type>>)
      [] operator.tag = "Other" ->
            LET op == lookup_comparison(e, left_type, operator.name)
            IN  IF op.tag = "Err" THEN Ok(<<sql_ast_equals, left_type>>)
                ELSE Ok(<<[function_name |-> op.value.operator_name,
                           is_infix |-> op.value.is_infix],
                          op.value.argument_type>>)

\* Variant of translate_comparison: Equal is looked up like any other operator.
translate_comparison_looking_up_equal(e, left_type, operator) ==
    LET op == lookup_comparison(e, left_type,
                                IF operator.tag = "Equal" THEN "_eq" ELSE operator.name)
    IN  IF op.tag = "Err" THEN op
        ELSE Ok(<<[function_name |-> op.value.operator_name,
                   is_infix |-> op.value.is_infix],
                  op.value.argument_type>>)

translate_comparison(e, left_type, operator) ==
    CASE operator.tag = "Equal" -> Ok(<<sql_ast_equals, left_type>>)
      [] operator.tag = "Other" ->
            LET op == lookup_comparison(e, left_type, operator.name)
            IN  IF op.tag = "Err" THEN op
                ELSE Ok(<<[function_name |-> op.value.operator_name,
                           is_infix |-> op.value.is_infix],
                          op.value.argument_type>>)

\* Bounded inputs of the translation.
CatalogTypes == {"int4", "text"}
LeftTypes == CatalogTypes \cup {"uuid"}
OperatorNames == {"_eq", "_lt", "_like"}

ComparisonOperators ==
    {ComparisonOperator("<", TRUE, "int4"),
     ComparisonOperator("LIKE", TRUE, "text"),
     ComparisonOperator("st_covers", FALSE, "text")}

\* A catalog gives every one of its types some of the named operators.
Catalogs == MapsOver(CatalogTypes, MapsOver(OperatorNames, ComparisonOperators))

BinaryComparisonOperators == {Equal} \cup {Other(n) : n \in OperatorNames}

InitTranslate ==
    /\ env \in Catalogs
    /\ tcall = Nothing
    /\ raw = RawConfiguration_empty
    /\ IdleValidate /\ IdleConfigure /\ IdleSchema
    /\ IdleOthers

\* One call of translate_comparison by a request handler.
Translate ==
    /\ \E left_type \in LeftTypes, operator \in BinaryComparisonOperators :
          tcall' = [left_type |-> left_type, operator |-> operator,
                    result |-> translate_comparison(env, left_type, operator)]
    /\ UNCHANGED <<raw, vresult, cpc, url, response, row, tables, cresult, env, schema,
                 tasks, previous, doc, parsed>>

NextTranslate == Translate

SpecTranslate == InitTranslate /\ [][NextTranslate]_vars

(***************************************************************************)
(* schema.rs : get_schema                                                  *)
(***************************************************************************)
Named(n) == [type |-> "named", name |-> n]
NullableType(u) == [type |-> "nullable", underlying_type |-> u]

\* Variant of column_to_type: the two arms exchanged.
column_to_type_swapped(column) ==
    CASE column.nullable = "NonNullable" -> NullableType(Named(column.type))
      [] column.nullable = "Nullable" -> Named(column.type)

column_to_type(column) ==
    CASE column.nullable = "NonNullable" -> Named(column.type)
      [] column.nullable = "Nullable" -> NullableType(Named(column.type))

\* The static operator catalog of the scalar types, Equal included:
\* ScalarType::comparison_operators and
\* BinaryComparisonOperator::rhs_argument_type.
comparison_operators(scalar_type) ==
    CASE scalar_type = "int4" -> {"_eq", "_lt"}
      [] scalar_type = "text" -> {"_eq", "_lt", "_like"}
      [] OTHER -> {"_eq"}

rhs_argument_type(operator, scalar_type) ==
    CASE operator = "_like" -> "text"
      [] OTHER -> scalar_type

\* let RawConfiguration { metadata, aggregate_functions, .. } = config;
\* schema.rs reads the aggregate functions from a field of the configuration
\* itself, not from the aggregate_functions of its metadata, which is where
\* version1.rs declares them and where configure puts them.
aggregate_functions_of(config) == config.aggregate_functions

\* Variant of occurring_scalar_types: the argument types are left out.
occurring_scalar_types_without_arguments(config) ==
    LET tables_column_types ==
            UNION {{c.type : c \in Range(v.columns)} : v \in Range(config.metadata.tables)}
        native_queries_column_types ==
            UNION {{c.type : c \in Range(v.columns)} :
                      v \in Range(config.metadata.native_queries)}
        aggregate_types == DOMAIN aggregate_functions_of(config)
    IN  tables_column_types \cup native_queries_column_types \cup aggregate_types

occurring_scalar_types(config) ==
    LET tables_column_types ==
            UNION {{c.type : c \in Range(v.columns)} : v \in Range(config.metadata.tables)}
        native_queries_column_types ==
            UNION {{c.type : c \in Range(v.columns)} :
                      v \in Range(config.metadata.native_queries)}
        native_queries_arguments_types ==
            UNION {{c.type : c \in Range(v.arguments)} :
                      v \in Range(config.metadata.native_queries)}
        aggregate_types == DOMAIN aggregate_functions_of(config)
    IN  tables_column_types \cup native_queries_column_types
            \cup native_queries_arguments_types \cup aggregate_types

\* Position of a name in BTreeMap order.
Index(n) == CHOOSE i \in 1..Len(NameOrder) : NameOrder[i] = n

\* BTreeMap::from_iter(columns.values().map(|column| (column.name, ..))):
\* of the columns sharing a name the last one in key order stays.
ObjectFields(columns) ==
    [f \in {c.name : c \in Range(columns)} |->
        LET last == CHOOSE k \in DOMAIN columns :
                       /\ columns[k].name = f
                       /\ \A k2 \in DOMAIN columns :
                             columns[k2].name = f => Index(k2) <= Index(k)
        IN  [description |-> None, type |-> column_to_type(columns[last])]]

ObjectType(columns) == [description |-> None, fields |-> ObjectFields(columns)]

ScalarTypeDefinition(config, scalar_type) ==
    LET declared == aggregate_functions_of(config)
        functions == IF scalar_type \in DOMAIN declared THEN declared[scalar_type]
                     ELSE EmptyMap
    IN  [aggregate_functions |->
            [function_name \in DOMAIN functions |->
                [result_type |-> Named(functions[function_name].return_type)]],
         comparison_operators |->
            [operator \in comparison_operators(scalar_type) |->
                [argument_type |-> Named(rhs_argument_type(operator, scalar_type))]],
         update_operators |-> EmptyMap]

TableCollection(table_name, table) ==
    [name |-> table_name,
     description |-> None,
     arguments |-> EmptyMap,
     collection_type |-> table_name,
     insertable_columns |-> None,
     updatable_columns |-> None,
     deletable |-> FALSE,
     uniqueness_constraints |->
        [constraint_name \in DOMAIN table.uniqueness_constraints |->
            [unique_columns |-> InOrder(table.uniqueness_constraints[constraint_name])]],
     foreign_keys |->
        [constraint_name \in DOMAIN table.foreign_relations |->
            [foreign_collection |-> table.foreign_relations[constraint_name].foreign_table,
             column_mapping |-> table.foreign_relations[constraint_name].column_mapping]]]

NativeQueryCollection(name, info) ==
    [name |-> name,
     description |-> None,
     arguments |->
        [a \in DOMAIN info.arguments |->
            [description |-> None, argument_type |-> column_to_type(info.arguments[a])]],
     collection_type |-> name,
     insertable_columns |-> None,
     updatable_columns |-> None,
     deletable |-> FALSE,
     uniqueness_constraints |-> EmptyMap,
     foreign_keys |-> EmptyMap]

\* metadata.tables.0.iter().map(..).collect::<Vec<_>>() : one collection per
\* entry, in key order.
TableCollections(map) ==
    LET keys == InOrder(DOMAIN map)
    IN  [i \in 1..Len(keys) |-> TableCollection(keys[i], map[keys[i]])]

NativeQueryCollections(map) ==
    LET keys == InOrder(DOMAIN map)
    IN  [i \in 1..Len(keys) |-> NativeQueryCollection(keys[i], map[keys[i]])]

\* object_types.extend(native_queries_types): an entry of the second map
\* replaces the entry of the same name.
Extend(m1, m2) ==
    [n \in DOMAIN m1 \cup DOMAIN m2 |-> IF n \in DOMAIN m2 THEN m2[n] ELSE m1[n]]

get_schema(configuration) ==
    LET config == configuration.config
        metadata == config.metadata
        scalar_types ==
            [scalar_type \in occurring_scalar_types(config) |->
                ScalarTypeDefinition(config, scalar_type)]
        tbls == TableCollections(metadata.tables)
        native_queries == NativeQueryCollections(metadata.native_queries)
        collections == tbls \o native_queries
        table_types ==
            [n \in DOMAIN metadata.tables |-> ObjectType(metadata.tables[n].columns)]
        native_queries_types ==
            [n \in DOMAIN metadata.native_queries |->
                ObjectType(metadata.native_queries[n].columns)]
        object_types == Extend(table_types, native_queries_types)
    IN  Ok([collections |-> collections,
            procedures |-> <<>>,
            functions |-> <<>>,
            object_types |-> object_types,
            scalar_types |-> scalar_types])

\* Bounded inputs of the schema derivation.
MaxTables == 2
MaxNativeQueries == 2

TableNames == {"a", "b", "c"}
NativeQueryNames == {"a", "c", "d"}

Col(k, t, nl) == [c \in {k} |-> ColumnInfo(k, t, nl)]

TableInfos ==
    {TableInfo(EmptyMap, EmptyMap, EmptyMap),
     TableInfo(Col("x", "int4", "NonNullable"), [c \in {"pk"} |-> {"x"}], EmptyMap),
     TableInfo(Col("x", "text", "Nullable"), EmptyMap, EmptyMap),
     TableInfo(Col("x", "int4", "NonNullable") @@ Col("y", "text", "Nullable"),
               [c \in {"pk"} |-> {"x", "y"}],
               [c \in {"fk"} |-> ForeignRelation("b", [k \in {"x"} |-> "y"])]),
     TableInfo([k \in {"x", "y"} |->
                   IF k = "x" THEN ColumnInfo("z", "int4", "Nullable")
                   ELSE ColumnInfo("z", "text", "NonNullable")],
               EmptyMap, EmptyMap),
     TableInfo(Col("y", "int4", "Nullable"), EmptyMap, EmptyMap)}

NativeQueryInfos ==
    {NativeQueryInfo(EmptyMap, EmptyMap),
     NativeQueryInfo(Col("x", "text", "NonNullable"), EmptyMap),
     NativeQueryInfo(Col("y", "int4", "Nullable"), Col("x", "int4", "Nullable")),
     NativeQueryInfo(EmptyMap, Col("y", "text", "NonNullable")),
     NativeQueryInfo(Col("x", "int4", "NonNullable"),
                     Col("x", "text", "Nullable") @@ Col("y", "int4", "NonNullable"))}

AggregateFunctionsSet ==
    {EmptyMap,
     [t \in {"int4"} |-> EmptyMap],
     [t \in {"int4"} |-> [f \in {"max"} |-> AggregateFunction("int4")]],
     [t \in {"int4", "text"} |->
        IF t = "int4" THEN [f \in {"max", "sum"} |->
                               AggregateFunction(IF f = "sum" THEN "int8" ELSE "int4")]
        ELSE [f \in {"max"} |-> AggregateFunction("text")]],
     [t \in {"int8"} |-> [f \in {"max"} |-> AggregateFunction("int8")]]}

BoundedMaps(keys, values, n) ==
    UNION {[d -> values] : d \in {d \in SUBSET keys : Cardinality(d) <= n}}

MetadataSet ==
    [tables : BoundedMaps(TableNames, TableInfos, MaxTables),
     native_queries : BoundedMaps(NativeQueryNames, NativeQueryInfos, MaxNativeQueries),
     aggregate_functions : {EmptyMap}]

\* Metadata as configure leaves it, with aggregate functions of its own;
\* get_schema does not read them.
DiscoveredMetadataSet ==
    [tables : BoundedMaps(TableNames, TableInfos, 1),
     native_queries : BoundedMaps(NativeQueryNames, NativeQueryInfos, 1),
     aggregate_functions :
        {[t \in {"int8"} |-> [f \in {"min"} |-> AggregateFunction("int8")]]}]

\* The RawConfiguration as schema.rs destructures it: with metadata m and the
\* aggregate functions a as a field of its own.
SchemaRawConfiguration(m, a) ==
    [version |-> CURRENT_VERSION,
     connection_uris |-> single_connection_uri("postgresql://h1"),
     pool_settings |-> PoolSettings_default,
     metadata |-> m,
     aggregate_functions |-> a,
     excluded_schemas |-> default_excluded_schemas]

\* Deployment configurations: the valid ones over MetadataSet, with aggregate
\* functions in the metadata or in the field schema.rs reads, and two that
\* validation rejects.
DeploymentConfigurations ==
    {SchemaRawConfiguration(m, a) : m \in MetadataSet, a \in AggregateFunctionsSet}
        \cup {SchemaRawConfiguration(m, EmptyMap) : m \in DiscoveredMetadataSet}
        \cup {RawConfiguration_empty,
              [RawConfiguration_empty EXCEPT
                 !.connection_uris = single_connection_uri("postgresql://h1"),
                 !.version = 2]}

InitSchema ==
    /\ raw \in DeploymentConfigurations
    /\ IdleValidate /\ IdleConfigure /\ IdleTranslate /\ IdleSchema
    /\ IdleOthers

\* The schema endpoint, served from the validated Configuration.
GetSchema ==
    /\ vresult.tag = "Ok"
    /\ schema = Nothing
    /\ schema' = get_schema(vresult.value)
    /\ UNCHANGED <<raw, vresult, cpc, url, response, row, tables, cresult, env, tcall,
                 tasks, previous, doc, parsed>>

NextSchema ==
    \/ Validate
    \/ GetSchema

SpecSchema == InitSchema /\ [][NextSchema]_vars

(***************************************************************************)
(* Request handlers running concurrently over the shared Configuration     *)
(* (`&Configuration`, held in vresult) and operator catalog (`&Env`).      *)
(* A handler runs get_schema or translate_comparison; its steps interleave *)
(* with the steps of the other handlers.                                   *)
(***************************************************************************)
MaxTasks == 2

Handlers == 1..MaxTasks

IdleTask == [pc |-> "idle", call |-> Nothing, acc |-> Nothing, result |-> Nothing]

SchemaCall == [op |-> "get_schema"]
TranslateCall(left_type, operator) ==
    [op |-> "translate_comparison", left_type |-> left_type, operator |-> operator]

Calls ==
    {SchemaCall}
        \cup {TranslateCall(left_type, operator) :
                 left_type \in {"int4", "uuid"},
                 operator \in {Equal, Other("_lt"), Other("_like")}}

SharedTables ==
    [n \in {"a", "b"} |->
        IF n = "a"
        THEN TableInfo(Col("x", "int4", "NonNullable") @@ Col("y", "text", "Nullable"),
                       [c \in {"pk"} |-> {"x", "y"}],
                       [c \in {"fk"} |-> ForeignRelation("b", [k \in {"x"} |-> "y"])])
        ELSE TableInfo(Col("y", "int4", "Nullable"), EmptyMap, EmptyMap)]

\* With no native query, or with two of which one has the name of a table.
SharedMetadataSet ==
    [tables : {SharedTables},
     native_queries :
        {EmptyMap,
         [n \in {"a", "c"} |->
             IF n = "a" THEN NativeQueryInfo(Col("x", "text", "NonNullable"), EmptyMap)
             ELSE NativeQueryInfo(Col("x", "int4", "NonNullable"),
                                  Col("x", "text", "Nullable")
                                      @@ Col("y", "int4", "NonNullable"))]},
     aggregate_functions : {EmptyMap}]

SharedAggregateFunctionsSet ==
    {[t \in {"int4", "text"} |->
        IF t = "int4" THEN [f \in {"max", "sum"} |->
                               AggregateFunction(IF f = "sum" THEN "int8" ELSE "int4")]
        ELSE [f \in {"max"} |-> AggregateFunction("text")]]}

SharedConfigurations ==
    {SchemaRawConfiguration(m, a) :
        m \in SharedMetadataSet, a \in SharedAggregateFunctionsSet}

SharedCatalogs ==
    {EmptyMap,
     [t \in {"int4", "text"} |->
        IF t = "int4" THEN [n \in {"_lt"} |-> ComparisonOperator("<", TRUE, "int4")]
        ELSE [n \in {"_lt", "_like"} |->
                 IF n = "_lt" THEN ComparisonOperator("<", TRUE, "text")
                 ELSE ComparisonOperator("LIKE", TRUE, "text")]]}

InitConcurrent ==
    /\ raw \in SharedConfigurations
    /\ env \in SharedCatalogs
    /\ tasks = [t \in Handlers |-> IdleTask]
    /\ tcall = Nothing
    /\ IdleValidate /\ IdleConfigure /\ IdleSchema /\ IdleRepeat /\ IdleFile

\* What a handler's step leaves alone: everything but its own task.
shared == <<raw, vresult, cpc, url, response, row, tables, cresult, env, tcall, schema,
            previous, doc, parsed>>

\* A request arrives: the handler enters get_schema or translate_comparison.
Call(t) ==
    /\ vresult.tag = "Ok"
    /\ tasks[t].pc = "idle"
    /\ \E c \in Calls :
          tasks' = [tasks EXCEPT ![t] =
                       [pc |-> IF c.op = "get_schema" THEN "scalar_types" ELSE "match",
                        call |-> c, acc |-> Nothing, result |-> Nothing]]
    /\ UNCHANGED shared

\* The locals of get_schema, each empty until its `let` has run.
SchemaLocals(scalar_types) ==
    [scalar_types |-> scalar_types,
     tables |-> <<>>,
     native_queries |-> <<>>,
     collections |-> <<>>,
     table_types |-> EmptyMap,
     native_queries_types |-> EmptyMap]

\* The keys an iterator over a map has still to yield, given the collections
\* made of the entries it has yielded.
Remaining(map, yielded) ==
    DOMAIN map \ {yielded[i].name : i \in 1..Len(yielded)}

\* BTreeMap::iter yields the entries in key order: the least key is next.
NextKey(keys) == CHOOSE k \in keys : \A k2 \in keys : Index(k) <= Index(k2)

\* get_schema: let scalar_types = occurring_scalar_types(config) .. collect();
SchemaScalarTypes(t) ==
    /\ tasks[t].pc = "scalar_types"
    /\ LET config == vresult.value.config
       IN  tasks' = [tasks EXCEPT
                        ![t].pc = "tables",
                        ![t].acc =
                            SchemaLocals([scalar_type \in occurring_scalar_types(config) |->
                                             ScalarTypeDefinition(config, scalar_type)])]
    /\ UNCHANGED shared

\* Variant of SchemaTables: the tables are kept in a HashMap, whose iterator
\* yields the entries in an order of its own.
SchemaTablesInHashOrder(t) ==
    /\ tasks[t].pc = "tables"
    /\ LET map == vresult.value.config.metadata.tables
           rest == Remaining(map, tasks[t].acc.tables)
       IN  IF rest = {}
           THEN tasks' = [tasks EXCEPT ![t].pc = "native_queries"]
           ELSE \E table_name \in rest :
                   tasks' = [tasks EXCEPT
                                ![t].acc.tables =
                                    Append(@, TableCollection(table_name, map[table_name]))]
    /\ UNCHANGED shared

\* get_schema: let tables: Vec<_> = metadata.tables.0.iter().map(..).collect();
\* one entry of the map per step, until the iterator is exhausted.
SchemaTables(t) ==
    /\ tasks[t].pc = "tables"
    /\ LET map == vresult.value.config.metadata.tables
           rest == Remaining(map, tasks[t].acc.tables)
       IN  IF rest = {}
           THEN tasks' = [tasks EXCEPT ![t].pc = "native_queries"]
           ELSE LET table_name == NextKey(rest)
                IN  tasks' = [tasks EXCEPT
                                 ![t].acc.tables =
                                     Append(@, TableCollection(table_name, map[table_name]))]
    /\ UNCHANGED shared

\* get_schema: let native_queries: Vec<_> =
\*     metadata.native_queries.0.iter().map(..).collect();
SchemaNativeQueries(t) ==
    /\ tasks[t].pc = "native_queries"
    /\ LET map == vresult.value.config.metadata.native_queries
           rest == Remaining(map, tasks[t].acc.native_queries)
       IN  IF rest = {}
           THEN tasks' = [tasks EXCEPT ![t].pc = "collections"]
           ELSE LET name == NextKey(rest)
                IN  tasks' = [tasks EXCEPT
                                 ![t].acc.native_queries =
                                     Append(@, NativeQueryCollection(name, map[name]))]
    /\ UNCHANGED shared

\* get_schema: let mut collections = tables; collections.extend(native_queries);
SchemaCollections(t) ==
    /\ tasks[t].pc = "collections"
    /\ tasks' = [tasks EXCEPT
                    ![t].pc = "table_types",
                    ![t].acc.collections = tasks[t].acc.tables \o tasks[t].acc.native_queries]
    /\ UNCHANGED shared

\* get_schema: let table_types = BTreeMap::from_iter(metadata.tables.0.iter()..);
SchemaTableTypes(t) ==
    /\ tasks[t].pc = "table_types"
    /\ LET map == vresult.value.config.metadata.tables
       IN  tasks' = [tasks EXCEPT
                        ![t].pc = "native_queries_types",
                        ![t].acc.table_types =
                            [table_name \in DOMAIN map |-> ObjectType(map[table_name].columns)]]
    /\ UNCHANGED shared

\* get_schema: let native_queries_types =
\*     BTreeMap::from_iter(metadata.native_queries.0.iter()..);
SchemaNativeQueriesTypes(t) ==
    /\ tasks[t].pc = "native_queries_types"
    /\ LET map == vresult.value.config.metadata.native_queries
       IN  tasks' = [tasks EXCEPT
                        ![t].pc = "object_types",
                        ![t].acc.native_queries_types =
                            [name \in DOMAIN map |-> ObjectType(map[name].columns)]]
    /\ UNCHANGED shared

\* get_schema: let mut object_types = table_types;
\* object_types.extend(native_queries_types); Ok(SchemaResponse {..})
SchemaObjectTypes(t) ==
    /\ tasks[t].pc = "object_types"
    /\ tasks' = [tasks EXCEPT
                    ![t].pc = "done",
                    ![t].result =
                        Ok([collections |-> tasks[t].acc.collections,
                            procedures |-> <<>>,
                            functions |-> <<>>,
                            object_types |-> Extend(tasks[t].acc.table_types,
                                                    tasks[t].acc.native_queries_types),
                            scalar_types |-> tasks[t].acc.scalar_types])]
    /\ UNCHANGED shared

\* translate_comparison: match operator { Equal => Ok(..), Other(name) => .. }
TranslateMatch(t) ==
    /\ tasks[t].pc = "match"
    /\ IF tasks[t].call.operator.tag = "Equal"
       THEN tasks' = [tasks EXCEPT ![t].pc = "done",
                                   ![t].result =
                                       Ok(<<sql_ast_equals, tasks[t].call.left_type>>)]
       ELSE tasks' = [tasks EXCEPT ![t].pc = "lookup"]
    /\ UNCHANGED shared

\* translate_comparison: let op = env.lookup_comparison(left_type, name)?;
TranslateLookup(t) ==
    /\ tasks[t].pc = "lookup"
    /\ LET op == lookup_comparison(env, tasks[t].call.left_type,
                                   tasks[t].call.operator.name)
       IN  IF op.tag = "Err"
           THEN tasks' = [tasks EXCEPT ![t].pc = "done", ![t].result = op]
           ELSE tasks' = [tasks EXCEPT ![t].pc = "build", ![t].acc = op.value]
    /\ UNCHANGED shared

\* translate_comparison: Ok((sql::ast::BinaryOperator {..}, op.argument_type))
TranslateBuild(t) ==
    /\ tasks[t].pc = "build"
    /\ tasks' = [tasks EXCEPT ![t].pc = "done",
                              ![t].result =
                                  Ok(<<[function_name |-> tasks[t].acc.operator_name,
                                        is_infix |-> tasks[t].acc.is_infix],
                                       tasks[t].acc.argument_type>>)]
    /\ UNCHANGED shared

\* One step of handler t.
Step(t) ==
    \/ Call(t)
    \/ SchemaScalarTypes(t)
    \/ SchemaTables(t)
    \/ SchemaNativeQueries(t)
    \/ SchemaCollections(t)
    \/ SchemaTableTypes(t)
    \/ SchemaNativeQueriesTypes(t)
    \/ SchemaObjectTypes(t)
    \/ TranslateMatch(t)
    \/ TranslateLookup(t)
    \/ TranslateBuild(t)

NextConcurrent ==
    \/ Validate
    \/ \E t \in Handlers : Step(t)

SpecConcurrent == InitConcurrent /\ [][NextConcurrent]_vars

(***************************************************************************)
(* configure called again against the same database                        *)
(***************************************************************************)
InitRepeat ==
    /\ raw \in RawConfigurations
    /\ cpc = "start" /\ url = None /\ response = Nothing /\ row = None
    /\ tables = None /\ cresult = Nothing
    /\ IdleValidate /\ IdleTranslate /\ IdleSchema
    /\ IdleOthers

\* The arguments of the second call: those of the first call, the
\* RawConfiguration the first call returned, or the first arguments with
\* other tables and aggregate functions.
SecondArguments ==
    {raw, cresult.value}
        \cup {[raw EXCEPT !.metadata.tables = m.tables,
                          !.metadata.aggregate_functions = m.aggregate_functions] :
                 m \in PriorMetadataSet}

\* The first call of configure reads the database.
FetchFirst == previous = Nothing /\ FetchOne

\* connection.fetch_one(query).await.map_err(..)? against the unchanged
\* database: the discovery query has the answer it had for the first call.
FetchAgain ==
    /\ previous # Nothing
    /\ cpc = "fetch"
    /\ LET r == fetch_one(response)
       IN  IF r.tag = "Err"
           THEN /\ cpc' = "done" /\ row' = row
                /\ cresult' = UpdateConfigurationError_Other(r.error)
           ELSE /\ cpc' = "decode_tables" /\ row' = Some(r.value)
                /\ cresult' = cresult
    /\ UNCHANGED <<raw, vresult, url, response, tables, env, tcall, schema,
                   tasks, previous, doc, parsed>>

\* configure has returned a RawConfiguration and is called a second time.
Again ==
    /\ cpc = "done"
    /\ cresult.tag = "Ok"
    /\ previous = Nothing
    /\ previous' = cresult
    /\ raw' \in SecondArguments
    /\ cpc' = "start" /\ url' = None /\ row' = None /\ tables' = None
    /\ cresult' = Nothing
    /\ UNCHANGED <<vresult, response, env, tcall, schema, tasks, doc, parsed>>

NextRepeat ==
    \/ SelectUri
    \/ Connect
    \/ FetchFirst
    \/ FetchAgain
    \/ DecodeTables
    \/ DecodeAggregates
    \/ Again

SpecRepeat == InitRepeat /\ [][NextRepeat]_vars

(***************************************************************************)
(* The serialized form of a RawConfiguration (serde derive, version1.rs)   *)
(* A JSON document is a map from member names to JSON values.              *)
(***************************************************************************)
JsonNull == [json |-> "null"]
JsonNumber(n) == [json |-> "number", number |-> n]
JsonString(str) == [json |-> "string", string |-> str]
JsonArray(a) == [json |-> "array", array |-> a]
JsonObject(m) == [json |-> "object", object |-> m]

\* Deserialize for u32: a number from 0 to 4294967295.
u32_deserialize(j) ==
    IF j.json # "number" THEN Err("invalid type")
    ELSE IF j.number < 0 \/ j.number \div 65536 >= 65536 THEN Err("invalid value")
    ELSE Ok(j.number)

\* Deserialize for u64: a number not below 0.
u64_deserialize(j) ==
    IF j.json # "number" THEN Err("invalid type")
    ELSE IF j.number < 0 THEN Err("invalid value")
    ELSE Ok(j.number)

\* Serialize for Option<u64>: None is null.
Option_serialize(o) == IF o = None THEN JsonNull ELSE JsonNumber(o[1])

\* Deserialize for Option<u64>: null is None, anything else is read as u64.
Option_deserialize(j) ==
    IF j.json = "null" THEN Ok(None)
    ELSE LET n == u64_deserialize(j)
         IN  IF n.tag = "Err" THEN n ELSE Ok(Some(n.value))

\* The members a derived struct visitor reads: those of an object
\* (visit_map), or the elements of an array taken as the fields in
\* declaration order (visit_seq), which stops after the last field.
StructMembers(j, fields) ==
    CASE j.json = "object" -> Ok(j.object)
      [] j.json = "array" ->
            LET read == {i \in 1..Len(j.array) : i <= Len(fields)}
            IN  Ok([f \in {fields[i] : i \in read} |->
                       j.array[CHOOSE i \in read : fields[i] = f]])
      [] OTHER -> Err("invalid type")

\* After visit_seq has returned Ok, an array with elements left over is an
\* error.
StructEnd(j, fields) ==
    IF j.json = "array" /\ Len(j.array) > Len(fields) THEN Err("invalid length")
    ELSE Ok(fields)

\* The error of the first field, in the order the fields are read, whose
\* value failed to deserialize; Ok when none did.
FirstError(read, order) ==
    LET failed == {i \in 1..Len(order) : read[order[i]].tag = "Err"}
    IN  IF failed = {} THEN Ok(order)
        ELSE read[order[CHOOSE i \in failed : \A k \in failed : i <= k]]

PoolFields == <<"max_connections", "pool_timeout", "idle_timeout", "connection_lifetime">>

\* The members of an object are read in the order of serde_json's Map, which
\* is sorted by key; the elements of an array in declaration order.
PoolFieldsByKey ==
    <<"connection_lifetime", "idle_timeout", "max_connections", "pool_timeout">>

PoolReadOrder(j) == IF j.json = "array" THEN PoolFields ELSE PoolFieldsByKey

\* #[derive(Serialize)] struct PoolSettings: every field is written.
PoolSettings_serialize(p) ==
    JsonObject([f \in Range(PoolFields) |->
                   CASE f = "max_connections" -> JsonNumber(p.max_connections)
                     [] f = "pool_timeout" -> JsonNumber(p.pool_timeout)
                     [] f = "idle_timeout" -> Option_serialize(p.idle_timeout)
                     [] f = "connection_lifetime" ->
                            Option_serialize(p.connection_lifetime)])

\* #[serde(default = "..")] of the four fields.
max_connection_default == PoolSettings_default.max_connections
pool_timeout_default == PoolSettings_default.pool_timeout
idle_timeout_default == PoolSettings_default.idle_timeout
connection_lifetime_default == PoolSettings_default.connection_lifetime

\* Variant of PoolSettings_deserialize: a missing optional field is None.
PoolSettings_deserialize_missing_is_none(j) ==
    LET members == StructMembers(j, PoolFields)
    IN  IF members.tag = "Err" THEN members
        ELSE LET o == members.value
                 max_connections ==
                     IF "max_connections" \in DOMAIN o
                     THEN u32_deserialize(o["max_connections"])
                     ELSE Ok(max_connection_default)
                 pool_timeout ==
                     IF "pool_timeout" \in DOMAIN o
                     THEN u64_deserialize(o["pool_timeout"])
                     ELSE Ok(pool_timeout_default)
                 idle_timeout ==
                     IF "idle_timeout" \in DOMAIN o
                     THEN Option_deserialize(o["idle_timeout"])
                     ELSE Ok(None)
                 connection_lifetime ==
                     IF "connection_lifetime" \in DOMAIN o
                     THEN Option_deserialize(o["connection_lifetime"])
                     ELSE Ok(None)
                 read ==
                     [f \in Range(PoolFields) |->
                         CASE f = "max_connections" -> max_connections
                           [] f = "pool_timeout" -> pool_timeout
                           [] f = "idle_timeout" -> idle_timeout
                           [] f = "connection_lifetime" -> connection_lifetime]
             IN  IF FirstError(read, PoolReadOrder(j)).tag = "Err"
                 THEN FirstError(read, PoolReadOrder(j))
                 ELSE IF StructEnd(j, PoolFields).tag = "Err"
                 THEN StructEnd(j, PoolFields)
                 ELSE Ok([max_connections |-> max_connections.value,
                          pool_timeout |-> pool_timeout.value,
                          idle_timeout |-> idle_timeout.value,
                          connection_lifetime |-> connection_lifetime.value])

\* #[derive(Deserialize)] struct PoolSettings, from an object or an array: a
\* missing field takes the value of its default function.
PoolSettings_deserialize(j) ==
    LET members == StructMembers(j, PoolFields)
    IN  IF members.tag = "Err" THEN members
        ELSE LET o == members.value
                 max_connections ==
                     IF "max_connections" \in DOMAIN o
                     THEN u32_deserialize(o["max_connections"])
                     ELSE Ok(max_connection_default)
                 pool_timeout ==
                     IF "pool_timeout" \in DOMAIN o
                     THEN u64_deserialize(o["pool_timeout"])
                     ELSE Ok(pool_timeout_default)
                 idle_timeout ==
                     IF "idle_timeout" \in DOMAIN o
                     THEN Option_deserialize(o["idle_timeout"])
                     ELSE Ok(idle_timeout_default)
                 connection_lifetime ==
                     IF "connection_lifetime" \in DOMAIN o
                     THEN Option_deserialize(o["connection_lifetime"])
                     ELSE Ok(connection_lifetime_default)
                 read ==
                     [f \in Range(PoolFields) |->
                         CASE f = "max_connections" -> max_connections
                           [] f = "pool_timeout" -> pool_timeout
                           [] f = "idle_timeout" -> idle_timeout
                           [] f = "connection_lifetime" -> connection_lifetime]
             IN  IF FirstError(read, PoolReadOrder(j)).tag = "Err"
                 THEN FirstError(read, PoolReadOrder(j))
                 ELSE IF StructEnd(j, PoolFields).tag = "Err"
                 THEN StructEnd(j, PoolFields)
                 ELSE Ok([max_connections |-> max_connections.value,
                          pool_timeout |-> pool_timeout.value,
                          idle_timeout |-> idle_timeout.value,
                          connection_lifetime |-> connection_lifetime.value])

\* #[serde(from = "ResolvedSecretIntermediate")] struct ResolvedSecret:
\* Unwrapped "postgresql://.." or Wrapped {"value": "postgresql://.."}.
ResolvedSecret_deserialize(j) ==
    CASE j.json = "string" -> Ok(j.string)
      [] j.json = "object" /\ "value" \in DOMAIN j.object /\ j.object["value"].json = "string" ->
            Ok(j.object["value"].string)
      [] OTHER -> Err("data did not match any variant")

\* #[derive(Serialize)] struct ResolvedSecret(String): the string itself.
ResolvedSecret_serialize(secret) == JsonString(secret)

\* #[serde(untagged)] enum SingleOrList<ConnectionUri>: one uri, or an array
\* of uris.
ConnectionUris_serialize(urls) ==
    CASE urls.tag = "Single" -> ResolvedSecret_serialize(urls.items[1])
      [] urls.tag = "List" ->
            JsonArray([i \in 1..Len(urls.items) |->
                          ResolvedSecret_serialize(urls.items[i])])

\* Single is tried first, then List.
ConnectionUris_deserialize(j) ==
    CASE ResolvedSecret_deserialize(j).tag = "Ok" ->
            Ok(Single(ResolvedSecret_deserialize(j).value))
      [] j.json = "array"
           /\ \A i \in 1..Len(j.array) : ResolvedSecret_deserialize(j.array[i]).tag = "Ok" ->
            Ok(List([i \in 1..Len(j.array) |-> ResolvedSecret_deserialize(j.array[i]).value]))
      [] OTHER -> Err("data did not match any variant")

ExcludedSchemas_serialize(l) == JsonArray([i \in 1..Len(l) |-> JsonString(l[i])])

ExcludedSchemas_deserialize(j) ==
    IF j.json = "array" /\ \A i \in 1..Len(j.array) : j.array[i].json = "string"
    THEN Ok([i \in 1..Len(j.array) |-> j.array[i].string])
    ELSE Err("invalid type")

\* metadata::Metadata is written as one JSON object and read back from it.
Metadata_serialize(m) == JsonObject(m)

Metadata_deserialize(j) ==
    IF j.json = "object" THEN Ok(j.object) ELSE Err("invalid type")

RawConfigurationFields ==
    <<"version", "connection_uris", "pool_settings", "metadata", "excluded_schemas">>

\* #[derive(Serialize)] struct RawConfiguration, with
\* #[serde(skip_serializing_if = "PoolSettings::is_default")] on pool_settings.
RawConfiguration_serialize(config) ==
    LET members ==
            {"version", "connection_uris", "metadata", "excluded_schemas"}
                \cup IF PoolSettings_is_default(config.pool_settings) THEN {}
                     ELSE {"pool_settings"}
    IN  JsonObject(
            [f \in members |->
                CASE f = "version" -> JsonNumber(config.version)
                  [] f = "connection_uris" ->
                         ConnectionUris_serialize(config.connection_uris)
                  [] f = "pool_settings" -> PoolSettings_serialize(config.pool_settings)
                  [] f = "metadata" -> Metadata_serialize(config.metadata)
                  [] f = "excluded_schemas" ->
                         ExcludedSchemas_serialize(config.excluded_schemas)])

\* #[derive(Deserialize)] struct RawConfiguration, from an object or an
\* array: version and connection_uris are required, the other fields have a
\* default.
RawConfiguration_deserialize(j) ==
    LET members == StructMembers(j, RawConfigurationFields)
    IN  IF members.tag = "Err" THEN Err("serde_json")
        ELSE IF ~ {"version", "connection_uris"} \subseteq DOMAIN members.value
        THEN Err("serde_json")
        ELSE LET d == members.value
                 version == u32_deserialize(d["version"])
                 connection_uris == ConnectionUris_deserialize(d["connection_uris"])
                 pool_settings ==
                     IF "pool_settings" \in DOMAIN d
                     THEN PoolSettings_deserialize(d["pool_settings"])
                     ELSE Ok(PoolSettings_default)
                 metadata ==
                     IF "metadata" \in DOMAIN d THEN Metadata_deserialize(d["metadata"])
                     ELSE Ok(Metadata_default)
                 excluded_schemas ==
                     IF "excluded_schemas" \in DOMAIN d
                     THEN ExcludedSchemas_deserialize(d["excluded_schemas"])
                     ELSE Ok(default_excluded_schemas)
             IN  IF \/ version.tag = "Err" \/ connection_uris.tag = "Err"
                    \/ pool_settings.tag = "Err" \/ metadata.tag = "Err"
                    \/ excluded_schemas.tag = "Err"
                    \/ StructEnd(j, RawConfigurationFields).tag = "Err"
                 THEN Err("serde_json")
                 ELSE Ok([version |-> version.value,
                          connection_uris |-> connection_uris.value,
                          pool_settings |-> pool_settings.value,
                          metadata |-> metadata.value,
                          excluded_schemas |-> excluded_schemas.value])

\* Bounded inputs: the configurations a deployment saves, and the documents
\* a user writes by hand.
SavedPoolSettings ==
    [max_connections : {50, 10},
     pool_timeout : {30, 5},
     idle_timeout : {None, Some(180), Some(60)},
     connection_lifetime : {None, Some(600)}]

SavedConfigurations ==
    [version : {CURRENT_VERSION},
     connection_uris : {Single("postgresql://h1"),
                        List(<<"postgresql://h1", "postgresql://h2">>), List(<<>>)},
     pool_settings : SavedPoolSettings,
     metadata : PriorMetadataSet,
     excluded_schemas : {default_excluded_schemas}]

\* How a document may give its endpoints: a string, a wrapped secret, an
\* array of either, or something that is no endpoint.
WrittenConnectionUris ==
    {JsonString("postgresql://h1"),
     JsonObject([k \in {"value"} |-> JsonString("postgresql://h1")]),
     JsonArray(<<JsonObject([k \in {"value"} |-> JsonString("postgresql://h1")]),
                 JsonString("postgresql://h2")>>),
     JsonArray(<<JsonString("postgresql://h1")>>),
     JsonArray(<<>>),
     JsonNumber(7)}

WrittenNumbers == {JsonNull, JsonNumber(50), JsonNumber(7), JsonNumber(-1)}

\* How a document may give its pool settings: an object with some of the
\* fields, an array, or null.
PoolDocuments ==
    {JsonNull}
        \cup {JsonObject(o) : o \in MapsOver(Range(PoolFields), WrittenNumbers)}
        \cup {JsonArray(a) :
                 a \in SeqsUpTo({JsonNull, JsonNumber(7)}, Len(PoolFields) + 1)}
        \cup {JsonArray(<<JsonNumber(7), JsonNumber(-1)>>)}

WrittenDocuments ==
    {JsonObject([f \in {"version"} |-> JsonNumber(CURRENT_VERSION)]),
     JsonObject([f \in {"version", "connection_uris"} |->
                    IF f = "version" THEN JsonNumber(-1)
                    ELSE JsonString("postgresql://h1")]),
     JsonArray(<<JsonNumber(CURRENT_VERSION)>>),
     JsonNull}
        \cup {JsonObject([f \in {"version", "connection_uris"} |->
                             IF f = "version" THEN JsonNumber(CURRENT_VERSION) ELSE u]) :
                 u \in WrittenConnectionUris}
        \cup {JsonObject([f \in {"version", "connection_uris", "pool_settings"} |->
                             CASE f = "version" -> JsonNumber(CURRENT_VERSION)
                               [] f = "connection_uris" -> JsonString("postgresql://h1")
                               [] f = "pool_settings" -> p]) :
                 p \in PoolDocuments}
        \cup {JsonArray(<<JsonNumber(CURRENT_VERSION), JsonString("postgresql://h1")>>
                            \o rest) :
                 rest \in {<<>>,
                           <<JsonObject([f \in {"pool_timeout"} |-> JsonNumber(7)])>>,
                           <<JsonArray(<<JsonNumber(7)>>), JsonObject(Metadata_default),
                             JsonArray(<<JsonString("private")>>)>>,
                           <<JsonArray(<<JsonNumber(7)>>), JsonObject(Metadata_default),
                             JsonArray(<<JsonString("private")>>), JsonNull>>}}

InitFile ==
    /\ raw \in SavedConfigurations
    /\ doc = Nothing /\ parsed = Nothing
    /\ IdleValidate /\ IdleConfigure /\ IdleTranslate /\ IdleSchema
    /\ IdleTasks /\ IdleRepeat

file == <<raw, vresult, cpc, url, response, row, tables, cresult, env, tcall, schema,
          tasks, previous>>

\* serde_json::to_value(&raw): the configuration is saved.
Serialize ==
    /\ doc = Nothing
    /\ doc' = RawConfiguration_serialize(raw)
    /\ parsed' = parsed
    /\ UNCHANGED file

\* The configuration file is written by hand.
Write ==
    /\ doc = Nothing
    /\ doc' \in WrittenDocuments
    /\ parsed' = parsed
    /\ UNCHANGED file

\* serde_json::from_value::<RawConfiguration>(doc): the file is loaded.
Deserialize ==
    /\ doc # Nothing
    /\ parsed = Nothing
    /\ parsed' = RawConfiguration_deserialize(doc)
    /\ doc' = doc
    /\ UNCHANGED file

NextFile ==
    \/ Serialize
    \/ Write
    \/ Deserialize

SpecFile == InitFile /\ [][NextFile]_vars

(***************************************************************************)
(* Properties of validate_raw_configuration                                *)
(***************************************************************************)
HasEndpoint(config) ==
    \/ config.connection_uris.tag = "Single"
    \/ Len(config.connection_uris.items) > 0

Names(result, k) ==
    /\ result.tag = "Err"
    /\ \E i \in 1..Len(result.error) : result.error[i].path = <<Key(k)>>

\* C1: validation succeeds iff version = 1 and there is at least one endpoint;
\* on success the Configuration wraps the input unchanged; version # 1 gives
\* an error entry at "version", no endpoint gives one at "connection_uris".
C1_ValidateContract ==
    vresult # Nothing =>
        /\ (vresult.tag = "Ok") <=> (raw.version = 1 /\ HasEndpoint(raw))
        /\ vresult.tag = "Ok" => vresult.value.config = raw
        /\ raw.version # 1 => Names(vresult, "version")
        /\ ~HasEndpoint(raw) => Names(vresult, "connection_uris")

\* C2: with both defects (version # 1 and no endpoint) the one error result
\* lists both, an entry at "version" and an entry at "connection_uris".
C2_BothDefectsReported ==
    (vresult # Nothing /\ raw.version # 1 /\ ~HasEndpoint(raw)) =>
        /\ Names(vresult, "version")
        /\ Names(vresult, "connection_uris")

(***************************************************************************)
(* Properties of configure                                                 *)
(***************************************************************************)
\* What the first row of the answer holds in column i, decoded.
Discovered(shape, i) ==
    from_value(shape, response.rows[1][i].json).value

\* C3: a successful configure carries native queries, pool settings, excluded
\* schemas and endpoints (shape included) over from args, takes tables and
\* aggregate functions from the discovery row alone, and has version 1.
C3_ConfigureFrame ==
    cresult.tag = "Ok" =>
        LET out == cresult.value
        IN  /\ out.metadata.native_queries = raw.metadata.native_queries
            /\ out.pool_settings = raw.pool_settings
            /\ out.excluded_schemas = raw.excluded_schemas
            /\ out.connection_uris = raw.connection_uris
            /\ out.metadata.tables = Discovered("TableInfo", 1)
            /\ out.metadata.aggregate_functions = Discovered("AggregateFunctions", 2)
            /\ out.version = 1

C3_Witness ==
    /\ cresult.tag = "Ok"
    /\ raw.version # 1
    /\ raw.connection_uris.tag = "List"
    /\ raw.pool_settings # PoolSettings_default
    /\ raw.metadata.tables # EmptyMap
    /\ cresult.value.metadata.tables # EmptyMap
    /\ DOMAIN cresult.value.metadata.tables \cap DOMAIN raw.metadata.tables = {}

\* Decoding column i of the fetched row fails: the column is missing or is
\* not JSON (Row::get), or its JSON is not of the expected shape (serde).
DecodeFails(shape, i) ==
    /\ row # None
    /\ \/ Row_get(row[1], i).tag # "Ok"
       \/ from_value(shape, Row_get(row[1], i).value).tag = "Err"

WrappedError == {UpdateConfigurationError_Other(e) :
                    e \in {"Io", "Database", "RowNotFound", "serde_json"}}

\* No RawConfiguration is returned with only some of the discovered fields:
\* Ok carries the tables and the aggregate functions decoded from the row, and
\* any other outcome carries no configuration.
NoPartialConfiguration ==
    /\ cresult.tag = "Ok" =>
          /\ cpc = "done" /\ tables # None
          /\ cresult.value.metadata.tables = tables[1]
          /\ from_value_AggregateFunctions(Row_get(row[1], 1).value)
                = Ok(cresult.value.metadata.aggregate_functions)
    /\ cresult.tag # "Ok" => DOMAIN cresult \cap {"value"} = {}

\* C4: a failed connect, query or decode of column 0 or of column 1 ends
\* configure with one wrapped error, a cancellation with nothing, and no
\* RawConfiguration is returned with only some of the discovered fields.
C4_AllOrNothing ==
    /\ NoPartialConfiguration
    /\ cpc = "done" =>
          /\ (url # None /\ response = Nothing) => cresult \in WrappedError \cup {Cancelled}
          /\ (response # Nothing /\ fetch_one(response).tag = "Err") => cresult \in WrappedError
          /\ DecodeFails("TableInfo", 0) => cresult \in WrappedError
          /\ (tables # None /\ DecodeFails("AggregateFunctions", 1)) => cresult \in WrappedError

\* C5: when the discovery query answers with zero rows, more than one row, a
\* row of fewer than two columns or a column that does not decode, configure
\* ends with an error and returns no RawConfiguration.
C5_ExactlyOneRowTwoJsonColumns ==
    (cpc = "done" /\ response # Nothing /\ response.tag = "Rows"
        /\ cresult # Cancelled) =>
        LET rs == response.rows
            bad == \/ Len(rs) # 1
                   \/ Len(rs[1]) < 2
                   \/ rs[1][1].pgtype # "jsonb"
                   \/ rs[1][2].pgtype # "jsonb"
                   \/ from_value("TableInfo", rs[1][1].json).tag = "Err"
                   \/ from_value("AggregateFunctions", rs[1][2].json).tag = "Err"
        IN  bad => cresult.tag = "Err"

(***************************************************************************)
(* Properties of translate_comparison                                      *)
(***************************************************************************)
\* C6: for every left type T, catalogued or not, Equal translates to the SQL
\* equality operator with right-hand type T, whatever the catalog holds.
C6_EqualBypassesCatalog ==
    (tcall # Nothing /\ tcall.operator = Equal) =>
        /\ tcall.result.tag = "Ok"
        /\ tcall.result.value[1] = sql_ast_equals
        /\ tcall.result.value[2] = tcall.left_type

\* Equal on a type whose catalog entry has an operator named "_eq" with
\* another SQL name and another argument type.
C6_Witness ==
    /\ tcall # Nothing /\ tcall.operator = Equal
    /\ tcall.left_type \in DOMAIN env
    /\ "_eq" \in DOMAIN env[tcall.left_type]
    /\ env[tcall.left_type]["_eq"].argument_type # tcall.left_type
    /\ tcall.result.tag = "Ok"

\* C7: for an operator name n other than Equal, the translation succeeds iff
\* n is in T's catalog entry and then returns that entry's SQL name, fixity
\* and argument type; otherwise it is an error naming T and n.
C7_OtherOperatorsFromCatalog ==
    (tcall # Nothing /\ tcall.operator.tag = "Other") =>
        LET T == tcall.left_type
            n == tcall.operator.name
            present == T \in DOMAIN env /\ n \in DOMAIN env[T]
        IN  /\ (tcall.result.tag = "Ok") <=> present
            /\ present =>
                  /\ tcall.result.value[1].function_name = env[T][n].operator_name
                  /\ tcall.result.value[1].is_infix = env[T][n].is_infix
                  /\ tcall.result.value[2] = env[T][n].argument_type
            /\ ~present =>
                  /\ tcall.result.tag = "Err"
                  /\ tcall.result.error.type_name = T
                  /\ tcall.result.error.operator_name = n

\* An operator absent from T's entry although T has other operators and
\* another type has an operator of that name.
C7_Witness ==
    /\ tcall # Nothing /\ tcall.operator.tag = "Other"
    /\ tcall.result.tag = "Err"
    /\ tcall.left_type \in DOMAIN env
    /\ DOMAIN env[tcall.left_type] # {}
    /\ \E t \in DOMAIN env : tcall.operator.name \in DOMAIN env[t]

(***************************************************************************)
(* Properties of get_schema                                                *)
(***************************************************************************)
Derived == schema.tag = "Ok"
Tables == raw.metadata.tables
NativeQueries == raw.metadata.native_queries
Declared == raw.aggregate_functions

\* The type is Nullable(Named(t)) iff the column is Nullable and the bare
\* Named(t) iff it is NonNullable, t being the column's scalar type.
TypeFollows(ty, column) ==
    /\ column.nullable \in {"Nullable", "NonNullable"}
    /\ (ty = [type |-> "nullable",
              underlying_type |-> [type |-> "named", name |-> column.type]])
          <=> column.nullable = "Nullable"
    /\ (ty = [type |-> "named", name |-> column.type])
          <=> column.nullable = "NonNullable"

\* The columns of the collections called n.
ColumnsCalled(n) ==
    (IF n \in DOMAIN Tables THEN Range(Tables[n].columns) ELSE {})
        \cup (IF n \in DOMAIN NativeQueries THEN Range(NativeQueries[n].columns) ELSE {})

\* C8: every object-type field and every native-query argument of the schema
\* has the nullable type iff its column is declared Nullable, the bare named
\* type iff it is declared NonNullable.
C8_NullabilityOfTypes ==
    Derived =>
        LET s == schema.value
        IN  /\ \A n \in DOMAIN s.object_types :
                  \A f \in DOMAIN s.object_types[n].fields :
                      \E c \in ColumnsCalled(n) :
                          /\ c.name = f
                          /\ TypeFollows(s.object_types[n].fields[f].type, c)
            /\ \A i \in DOMAIN s.collections :
                  \A a \in DOMAIN s.collections[i].arguments :
                      LET n == s.collections[i].name
                      IN  /\ n \in DOMAIN NativeQueries
                          /\ a \in DOMAIN NativeQueries[n].arguments
                          /\ TypeFollows(s.collections[i].arguments[a].argument_type,
                                         NativeQueries[n].arguments[a])
            /\ \A n \in DOMAIN NativeQueries :
                  \A a \in DOMAIN NativeQueries[n].arguments :
                      \E i \in DOMAIN s.collections :
                          /\ s.collections[i].name = n
                          /\ a \in DOMAIN s.collections[i].arguments

\* A schema with a nullable and a bare field and a nullable and a bare argument.
C8_Witness ==
    /\ Derived
    /\ \E n \in DOMAIN Tables : \E f1, f2 \in DOMAIN schema.value.object_types[n].fields :
          /\ n \notin DOMAIN NativeQueries
          /\ schema.value.object_types[n].fields[f1].type.type = "nullable"
          /\ schema.value.object_types[n].fields[f2].type.type = "named"
    /\ \E i \in DOMAIN schema.value.collections :
          \E a1, a2 \in DOMAIN schema.value.collections[i].arguments :
              /\ schema.value.collections[i].arguments[a1].argument_type.type = "nullable"
              /\ schema.value.collections[i].arguments[a2].argument_type.type = "named"

TableColumnTypes ==
    {t \in {"int4", "int8", "text"} :
        \E n \in DOMAIN Tables : \E k \in DOMAIN Tables[n].columns :
            Tables[n].columns[k].type = t}
NativeQueryColumnTypes ==
    {t \in {"int4", "int8", "text"} :
        \E n \in DOMAIN NativeQueries : \E k \in DOMAIN NativeQueries[n].columns :
            NativeQueries[n].columns[k].type = t}
NativeQueryArgumentTypes ==
    {t \in {"int4", "int8", "text"} :
        \E n \in DOMAIN NativeQueries : \E k \in DOMAIN NativeQueries[n].arguments :
            NativeQueries[n].arguments[k].type = t}

\* C9: the keys of scalar_types are exactly the table column types, the
\* native-query column types, the native-query argument types and the types
\* with a declared aggregate entry; each carries its declared aggregates
\* (name to result type), an empty map when it has none.
C9_ScalarTypes ==
    Derived =>
        LET st == schema.value.scalar_types
        IN  /\ DOMAIN st = TableColumnTypes \cup NativeQueryColumnTypes
                              \cup NativeQueryArgumentTypes \cup DOMAIN Declared
            /\ \A t \in DOMAIN st :
                  /\ "aggregate_functions" \in DOMAIN st[t]
                  /\ t \notin DOMAIN Declared => DOMAIN st[t].aggregate_functions = {}
                  /\ t \in DOMAIN Declared =>
                        /\ DOMAIN st[t].aggregate_functions = DOMAIN Declared[t]
                        /\ \A f \in DOMAIN Declared[t] :
                              st[t].aggregate_functions[f].result_type
                                = [type |-> "named", name |-> Declared[t][f].return_type]

\* A type that only an argument has, with no aggregates, beside a type that
\* only has an aggregate entry and a type that only a table column has.
C9_Witness ==
    /\ Derived
    /\ \E t \in NativeQueryArgumentTypes :
          /\ t \notin TableColumnTypes \cup NativeQueryColumnTypes \cup DOMAIN Declared
          /\ schema.value.scalar_types[t].aggregate_functions = EmptyMap
    /\ \E t \in DOMAIN Declared :
          /\ t \notin TableColumnTypes \cup NativeQueryColumnTypes
                        \cup NativeQueryArgumentTypes
          /\ schema.value.scalar_types[t].aggregate_functions # EmptyMap
    /\ \E t \in TableColumnTypes :
          t \notin NativeQueryArgumentTypes \cup NativeQueryColumnTypes \cup DOMAIN Declared

\* The fields are exactly the columns: the same names, each typed by a column
\* of that name.
FieldsAreColumns(fields, columns) ==
    /\ DOMAIN fields = {columns[k].name : k \in DOMAIN columns}
    /\ \A f \in DOMAIN fields :
          \E k \in DOMAIN columns :
              columns[k].name = f /\ TypeFollows(fields[f].type, columns[k])

IsTableCollection(c, n) ==
    /\ c.name = n
    /\ c.collection_type \in DOMAIN schema.value.object_types
    /\ FieldsAreColumns(schema.value.object_types[c.collection_type].fields,
                        Tables[n].columns)
    /\ DOMAIN c.uniqueness_constraints = DOMAIN Tables[n].uniqueness_constraints
    /\ \A u \in DOMAIN c.uniqueness_constraints :
          /\ Range(c.uniqueness_constraints[u].unique_columns)
                = Tables[n].uniqueness_constraints[u]
          /\ Len(c.uniqueness_constraints[u].unique_columns)
                = Cardinality(Tables[n].uniqueness_constraints[u])
    /\ DOMAIN c.foreign_keys = DOMAIN Tables[n].foreign_relations
    /\ \A k \in DOMAIN c.foreign_keys :
          /\ c.foreign_keys[k].foreign_collection
                = Tables[n].foreign_relations[k].foreign_table
          /\ c.foreign_keys[k].column_mapping
                = Tables[n].foreign_relations[k].column_mapping

IsNativeQueryCollection(c, n) ==
    /\ c.name = n
    /\ c.collection_type \in DOMAIN schema.value.object_types
    /\ FieldsAreColumns(schema.value.object_types[c.collection_type].fields,
                        NativeQueries[n].columns)
    /\ c.uniqueness_constraints = EmptyMap
    /\ c.foreign_keys = EmptyMap

\* C10: for every Configuration, also when a table and a native query share
\* a name, the schema has one collection and one object type per table and
\* per native query, the object type of each collection has that
\* collection's columns as fields, table collections carry their constraints
\* and foreign keys verbatim, and native-query collections have none.
C10_CollectionsAndObjectTypes ==
    Derived =>
        LET s == schema.value
            nt == Cardinality(DOMAIN Tables)
            nq == Cardinality(DOMAIN NativeQueries)
        IN  /\ Len(s.collections) = nt + nq
            /\ Cardinality(DOMAIN s.object_types) = nt + nq
            /\ \A n \in DOMAIN Tables :
                  \E i \in 1..nt : IsTableCollection(s.collections[i], n)
            /\ \A n \in DOMAIN NativeQueries :
                  \E i \in (nt + 1)..(nt + nq) : IsNativeQueryCollection(s.collections[i], n)

(***************************************************************************)
(* Properties of concurrent request handling                               *)
(***************************************************************************)
\* What a call returns when it runs alone on the shared Configuration and
\* catalog.
RunAlone(c) ==
    IF c.op = "get_schema" THEN get_schema(vresult.value)
    ELSE translate_comparison(env, c.left_type, c.operator)

InFlight(t) == tasks[t].pc \notin {"idle", "done"}

\* C11: under any interleaving of concurrent get_schema and
\* translate_comparison calls every completed call has the result it has
\* when run alone (so two schema derivations are identical), a call in
\* flight can always take its next step whatever the other calls returned,
\* and the shared Configuration and catalog never change.
C11_PureUnderInterleaving ==
    /\ [](/\ \A t \in DOMAIN tasks :
                /\ tasks[t].pc = "done" => tasks[t].result = RunAlone(tasks[t].call)
                /\ InFlight(t) => ENABLED Step(t)
          /\ \A t, u \in DOMAIN tasks :
                (/\ tasks[t].pc = "done" /\ tasks[u].pc = "done"
                 /\ tasks[t].call = SchemaCall /\ tasks[u].call = SchemaCall)
                    => tasks[t].result = tasks[u].result
          /\ vresult.tag = "Ok" => vresult.value.config = raw)
    /\ [][/\ raw' = raw /\ env' = env
          /\ vresult.tag = "Ok" => vresult' = vresult]_vars

\* A translation failed in one handler and a schema derivation interleaved
\* with it completed in another, over two tables and two native queries.
C11_Witness ==
    \E t, u \in DOMAIN tasks :
        /\ tasks[t].pc = "done" /\ tasks[t].call.op = "translate_comparison"
        /\ tasks[t].result.tag = "Err"
        /\ tasks[u].pc = "done" /\ tasks[u].call = SchemaCall
        /\ tasks[u].result.tag = "Ok"
        /\ Len(tasks[u].result.value.collections) > 3
        /\ DOMAIN tasks[u].result.value.scalar_types # {}

\* Two schema derivations interleaved: one has built its collections while
\* the other is still iterating over the tables.
TwoDerivationsInterleaved ==
    \E t, u \in DOMAIN tasks :
        /\ tasks[t].call = SchemaCall /\ tasks[t].pc = "table_types"
        /\ tasks[u].call = SchemaCall /\ tasks[u].pc = "tables"
        /\ Len(tasks[u].acc.tables) = 1

(***************************************************************************)
(* Properties of repeated discovery                                        *)
(***************************************************************************)
SecondCallReturned == previous # Nothing /\ cpc = "done"

\* C12: against an unchanged database a second configure, given the same
\* arguments, the RawConfiguration the first call returned, or arguments
\* with other tables and aggregate functions, returns the RawConfiguration
\* the first call returned; the only way it can fail is the connection.
C12_DiscoveryIdempotent ==
    SecondCallReturned =>
        /\ cresult.tag = "Ok" => cresult = previous
        /\ cresult.tag # "Ok" => cresult = UpdateConfigurationError_Other("Io")

\* The RawConfiguration of the first call, with discovered tables the
\* arguments did not have, was fed back and configure returned again.
C12_Witness ==
    /\ SecondCallReturned
    /\ cresult.tag = "Ok"
    /\ raw = previous.value
    /\ DOMAIN cresult.value.metadata.tables # {}
    /\ cresult.value.metadata.aggregate_functions # EmptyMap

(***************************************************************************)
(* Properties of the serialized form                                       *)
(***************************************************************************)
DocumentedDefaults ==
    [max_connections |-> 50, pool_timeout |-> 30, idle_timeout |-> Some(180),
     connection_lifetime |-> Some(600)]

Serialized == doc # Nothing /\ doc = RawConfiguration_serialize(raw)

Loaded == parsed # Nothing /\ parsed.tag = "Ok"

\* The document, an object or an array of the fields in order, has no
\* pool_settings.
OmitsPoolSettings ==
    \/ doc.json = "object" /\ "pool_settings" \notin DOMAIN doc.object
    \/ doc.json = "array" /\ Len(doc.array) < 3

\* The pool_settings of a document that has them.
PoolDocument == IF doc.json = "object" THEN doc.object["pool_settings"] ELSE doc.array[3]

PoolFieldNames == {"max_connections", "pool_timeout", "idle_timeout", "connection_lifetime"}

\* The fields the pool_settings of the document give: the members of an
\* object, or as many leading fields as an array has elements.
PoolMembers ==
    CASE PoolDocument.json = "object" -> DOMAIN PoolDocument.object \cap PoolFieldNames
      [] PoolDocument.json = "array" ->
            {<<"max_connections", "pool_timeout", "idle_timeout",
               "connection_lifetime">>[i] : i \in 1..Len(PoolDocument.array) \cap 1..4}
      [] OTHER -> {}

PoolMember(f) ==
    IF PoolDocument.json = "object" THEN PoolDocument.object[f]
    ELSE PoolDocument.array[CHOOSE i \in 1..4 :
                           <<"max_connections", "pool_timeout", "idle_timeout",
                             "connection_lifetime">>[i] = f]

\* Every field the pool_settings give has a value of its type.
PoolMembersWellTyped ==
    /\ PoolDocument.json \in {"object", "array"}
    /\ PoolDocument.json = "array" => Len(PoolDocument.array) <= 4
    /\ \A f \in PoolMembers :
          \/ PoolMember(f).json = "number" /\ PoolMember(f).number >= 0
          \/ PoolMember(f).json = "null" /\ f \in {"idle_timeout", "connection_lifetime"}

\* The document is an object with a version and endpoints that load.
RestLoads ==
    /\ doc.json = "object"
    /\ {"version", "connection_uris"} \subseteq DOMAIN doc.object
    /\ doc.object["version"].json = "number" /\ doc.object["version"].number >= 0
    /\ doc.object["connection_uris"].json # "number"

\* C13: the serialized form omits pool_settings exactly when the pool
\* settings are {50, 30, 180, 600}; a document without pool_settings, or
\* without some of its fields, loads with the default for what is missing;
\* and loading a serialized RawConfiguration gives back its pool settings.
C13_PoolSettingsSerialization ==
    /\ Serialized =>
          /\ OmitsPoolSettings <=> raw.pool_settings = DocumentedDefaults
          /\ parsed # Nothing =>
                /\ parsed.tag = "Ok"
                /\ parsed.value.pool_settings = raw.pool_settings
    /\ (doc # Nothing /\ parsed # Nothing /\ doc.json \in {"object", "array"}) =>
          /\ (OmitsPoolSettings /\ RestLoads) => Loaded
          /\ (OmitsPoolSettings /\ Loaded) =>
                parsed.value.pool_settings = DocumentedDefaults
          /\ (Loaded /\ ~ OmitsPoolSettings) =>
                \A f \in PoolFieldNames \ PoolMembers :
                    parsed.value.pool_settings[f] = DocumentedDefaults[f]
          /\ (~ OmitsPoolSettings /\ RestLoads /\ PoolMembersWellTyped) => Loaded

\* A hand-written document that gives max_connections and leaves out
\* idle_timeout was loaded.
PartialDocumentLoaded ==
    /\ Loaded
    /\ ~ Serialized
    /\ ~ OmitsPoolSettings
    /\ "idle_timeout" \notin PoolMembers
    /\ "max_connections" \in PoolMembers
    /\ parsed.value.pool_settings.max_connections = 7

\* A saved configuration with pool settings other than the defaults, an
\* idle_timeout of None among them, was loaded again.
C13_Witness ==
    /\ Loaded
    /\ Serialized
    /\ ~ OmitsPoolSettings
    /\ raw.pool_settings.idle_timeout = None
    /\ raw.pool_settings.max_connections = 10

(***************************************************************************)
(* Properties of endpoint selection in configure                           *)
(***************************************************************************)
Returned == cpc = "done" /\ cresult # Cancelled

\* C14: configure connects to the first endpoint of a non-empty endpoint
\* sequence and to no other; for an empty endpoint list it returns an Error;
\* every invocation returns a RawConfiguration or an Error.
C14_EndpointSelectionTotal ==
    /\ (HasEndpoint(raw) /\ cpc \notin {"start", "idle"} /\ cresult # Cancelled) =>
          url = Some(raw.connection_uris.items[1])
    /\ (~ HasEndpoint(raw) /\ Returned) => cresult.tag = "Err"
    /\ Returned => cresult.tag \in {"Ok", "Err"}

(***************************************************************************)
(* Closure of the schema response under type references                    *)
(***************************************************************************)
\* The scalar type a models::Type names.
NamedBy(ty) == IF ty.type = "nullable" THEN ty.underlying_type.name ELSE ty.name

FieldTypeReferences ==
    UNION {{NamedBy(schema.value.object_types[n].fields[f].type) :
               f \in DOMAIN schema.value.object_types[n].fields} :
              n \in DOMAIN schema.value.object_types}

ArgumentTypeReferences ==
    UNION {{NamedBy(schema.value.collections[i].arguments[a].argument_type) :
               a \in DOMAIN schema.value.collections[i].arguments} :
              i \in DOMAIN schema.value.collections}

AggregateResultReferences ==
    UNION {{NamedBy(schema.value.scalar_types[t].aggregate_functions[f].result_type) :
               f \in DOMAIN schema.value.scalar_types[t].aggregate_functions} :
              t \in DOMAIN schema.value.scalar_types}

OperatorArgumentReferences ==
    UNION {{NamedBy(schema.value.scalar_types[t].comparison_operators[o].argument_type) :
               o \in DOMAIN schema.value.scalar_types[t].comparison_operators} :
              t \in DOMAIN schema.value.scalar_types}

\* C15: every scalar type name referenced in the schema response, by an
\* object-type field, a native-query argument, an aggregate function's
\* result or a comparison operator's argument, is a key of scalar_types.
C15_ClosedUnderTypeReferences ==
    Derived =>
        FieldTypeReferences \cup ArgumentTypeReferences
            \cup AggregateResultReferences \cup OperatorArgumentReferences
                \subseteq DOMAIN schema.value.scalar_types

====
